---- MODULE Spec2Model ----
(***************************************************************************)
(* Zip Code Mapper (app.py): the submit handler of main(), the two         *)
(* st.cache_data caches it drives (geocode_zip, load_state_boundaries),    *)
(* the Nominatim provider and the boundary endpoint as environment, and    *)
(* wall-clock time as a tick counter.  Every Streamlit session runs main() *)
(* in its own script thread; the caches are shared by the whole process.   *)
(*                                                                         *)
(* Latitude/longitude are integers in units of 1e-4 degree.  The provider  *)
(* table uses even values, so the /2.0 of the bounding-box midpoint is     *)
(* exact on every value the model produces.                                *)
(***************************************************************************)
EXTENDS Integers, Sequences, FiniteSets, TLC

\* ---------------------------------------------------------------- bounds
\* Longest list of comma-separated entries a user submits.
MaxEntries == 2
\* Longest list each of two concurrent sessions submits.
MaxSharedEntries == 2
\* Cap on the provider queries counted per postal code.
MaxQueries == 2

\* ------------------------------------------------------- program constants
\* No sleep at all.
NoSleep == 1 - 1
\* time.sleep(1): the clock of the model counts seconds.
SleepTicks == 1
\* The provider's policy, one request per second: the spacing the throttle
\* is there to keep.
MinInterval == 1

lat_default == 370902
lon_default == -957129
zoom_default == 4
\* folium.Map(..., zoom_start=6) of the "Auto Region" branch
AutoZoom == 6

state_centers ==
  [ CT |-> <<416032, -730877, 8>>,
    MA |-> <<424072, -713824, 8>>,
    NY |-> <<430000, -750000, 7>> ]

\* The options of the two select boxes.
ZoomChoices == {"National", "State", "Auto Region"}
StateOptions == {"CT", "MA", "NY"}
\* chosen_state = None
NoState == "None"
\* What the form can hold at Submit: a state is asked for under "State" only.
FormChoices ==
  {<<zc, NoState>> : zc \in ZoomChoices \ {"State"}}
    \cup {<<"State", st>> : st \in StateOptions}

\* state_data_urls: the states that have a boundary endpoint.
state_data_urls == {"CT"}

\* Python's None as a return value (a falsy value, like the empty tuple).
None == <<>>
Truthy(v) == v # <<>>

\* ------------------------------------------------------------ environment
Sessions == {"s1", "s2"}

\* Postal codes users type, after stripping.
Codes == {"06106", "10001", "INVALID_XYZ"}

\* What Nominatim answers for a postal code when the query goes through:
\* a location (latitude, longitude) or no candidate.
ProviderTable ==
  [ c \in Codes |->
      CASE c = "06106" -> <<417400, -727000>>
        [] c = "10001" -> <<407500, -739900>>
        [] OTHER       -> None ]

\* The CT town boundaries served by the endpoint: axis-aligned polygons.
TownBoundaries ==
  << [name |-> "Hartford",   minLat |-> 417000, maxLat |-> 418000,
                             minLon |-> -728000, maxLon |-> -726000],
     [name |-> "Bridgeport", minLat |-> 411000, maxLat |-> 412500,
                             minLon |-> -733000, maxLon |-> -731000] >>

\* The raw pieces of zip_input between commas, typed like the form's default
\* text "06106, 06604, 06840, 06804": a blank follows each comma.
RawEntries == {"06106", " 10001", " INVALID_XYZ", " "}

\* z.strip()
Strip(e) ==
  CASE e = " 10001"       -> "10001"
    [] e = " INVALID_XYZ" -> "INVALID_XYZ"
    [] e = " "            -> ""
    [] OTHER              -> e

RECURSIVE ParseZipInput(_)
\* [z.strip() for z in zip_input.split(",") if z.strip()]
ParseZipInput(entries) ==
  IF entries = <<>> THEN <<>>
  ELSE LET z == Strip(Head(entries))
           rest == ParseZipInput(Tail(entries))
       IN IF z # "" THEN <<z>> \o rest ELSE rest

RECURSIVE SeqsUpTo(_, _)
SeqsUpTo(S, n) ==
  IF n = 0 THEN {<<>>}
  ELSE LET shorter == SeqsUpTo(S, n - 1)
       IN shorter \cup {Append(q, e) : q \in shorter, e \in S}

ZipInputs == SeqsUpTo(RawEntries, MaxEntries)
\* The lists the handler can get out of them.
ParsedInputs == {ParseZipInput(entries) : entries \in ZipInputs}
\* What two concurrent users type in the shared-process scenario.
SharedEntries == {"06106", " INVALID_XYZ", " "}
SharedInputs ==
  {ParseZipInput(entries) : entries \in SeqsUpTo(SharedEntries, MaxSharedEntries)}

VARIABLES
  pc,            \* per session: where its script run of main() stands
  zip_codes,     \* per session: the parsed list
  idx,           \* per session: position of the for loop in zip_codes
  c,             \* per session: value geocode_zip returned for the current z
  hit,           \* per session: the current geocode_zip call was a cache hit
  coords_list,   \* per session
  errors,        \* per session: the st.error reports, in order
  warnings,      \* per session: the st.warning reports, in order
  zoom_choice,   \* per session
  chosen_state,  \* per session
  m,             \* per session: the folium map's <<lat, lon, zoom>>
  markers,       \* per session: folium.Marker pins, in order
  highlights,    \* per session: folium.GeoJson layers, in order
  loadResult,    \* per session: what load_state_boundaries returned this run
  sleepLeft,     \* per session: ticks left of the running time.sleep
  geoCache,      \* st.cache_data of geocode_zip: cached keys -> value
  boundaryCache, \* st.cache_data of load_state_boundaries
  queries,       \* per code: provider queries issued so far
  lastAnswer,    \* per code: how the provider's last query ended
  sinceCall,     \* per session: ticks since its last provider query this run
  sinceAny,      \* ticks since the last provider query of the process
  gap,           \* per session: sinceCall as its last query was issued
  globalGap      \* sinceAny as the last query of the process was issued

vars == << pc, zip_codes, idx, c, hit, coords_list, errors, warnings,
           zoom_choice, chosen_state, m, markers, highlights, loadResult,
           sleepLeft, geoCache, boundaryCache, queries, lastAnswer,
           sinceCall, sinceAny, gap, globalGap >>

\* No provider query yet.
NoCall == 0 - 1

\* An st.cache_data entry: Absent for a key never computed, else <<value>>.
Absent == <<>>
Cached(v) == <<v>>
IsCached(cache, key) == cache[key] # Absent
CachedValue(cache, key) == cache[key][1]
\* A cache that keeps no None.
StoreResultUnlessNone(cache, key, v) ==
  IF v = <<>> THEN cache ELSE [cache EXCEPT ![key] = Cached(v)]
\* st.cache_data stores whatever the function returned, None included.
StoreResult(cache, key, v) == [cache EXCEPT ![key] = Cached(v)]

Init ==
  /\ pc = [s \in Sessions |-> "form"]
  /\ zip_codes = [s \in Sessions |-> <<>>]
  /\ idx = [s \in Sessions |-> 1]
  /\ c = [s \in Sessions |-> None]
  /\ hit = [s \in Sessions |-> FALSE]
  /\ coords_list = [s \in Sessions |-> <<>>]
  /\ errors = [s \in Sessions |-> <<>>]
  /\ warnings = [s \in Sessions |-> <<>>]
  /\ zoom_choice = [s \in Sessions |-> "National"]
  /\ chosen_state = [s \in Sessions |-> NoState]
  /\ m = [s \in Sessions |-> <<lat_default, lon_default, zoom_default>>]
  /\ markers = [s \in Sessions |-> <<>>]
  /\ highlights = [s \in Sessions |-> <<>>]
  /\ loadResult = [s \in Sessions |-> "not called"]
  /\ sleepLeft = [s \in Sessions |-> 0]
  /\ geoCache = [z \in Codes |-> Absent]
  /\ boundaryCache = [st \in StateOptions |-> Absent]
  /\ queries = [z \in Codes |-> 0]
  /\ lastAnswer = [z \in Codes |-> "none yet"]
  /\ sinceCall = [s \in Sessions |-> NoCall]
  /\ sinceAny = NoCall
  /\ gap = [s \in Sessions |-> NoCall]
  /\ globalGap = NoCall

\* --------------------------------------------------------------- the form
\* with st.form("zip_form"): ... submitted; lines 104-108 of the handler.
SubmitFrom(s, inputs, choices) ==
  /\ pc[s] \in {"form", "rendered"}
  /\ \E parsed \in inputs, choice \in choices :
       /\ zip_codes' = [zip_codes EXCEPT ![s] = parsed]
       /\ zoom_choice' = [zoom_choice EXCEPT ![s] = choice[1]]
       /\ chosen_state' = [chosen_state EXCEPT ![s] = choice[2]]
  /\ pc' = [pc EXCEPT ![s] = "loop"]
  /\ idx' = [idx EXCEPT ![s] = 1]
  /\ c' = [c EXCEPT ![s] = None]
  /\ hit' = [hit EXCEPT ![s] = FALSE]
  /\ coords_list' = [coords_list EXCEPT ![s] = <<>>]
  /\ errors' = [errors EXCEPT ![s] = <<>>]
  /\ warnings' = [warnings EXCEPT ![s] = <<>>]
  /\ m' = [m EXCEPT ![s] = <<lat_default, lon_default, zoom_default>>]
  /\ markers' = [markers EXCEPT ![s] = <<>>]
  /\ highlights' = [highlights EXCEPT ![s] = <<>>]
  /\ loadResult' = [loadResult EXCEPT ![s] = "not called"]
  /\ sinceCall' = [sinceCall EXCEPT ![s] = NoCall]
  /\ gap' = [gap EXCEPT ![s] = NoCall]
  /\ UNCHANGED << sleepLeft, geoCache, boundaryCache, queries, lastAnswer,
                  sinceAny, globalGap >>

\* ------------------------------------------------------------- geocoding
InLoop(s) == pc[s] = "loop" /\ idx[s] <= Len(zip_codes[s])
CurrentZip(s) == zip_codes[s][idx[s]]

\* st.cache_data computes one key in one thread at a time.
Computing(z) ==
  \E t \in Sessions : pc[t] = "geocode" /\ zip_codes[t][idx[t]] = z

\* c = geocode_zip(z), served by st.cache_data; then time.sleep(1) starts.
GeocodeCacheHit(s) ==
  /\ InLoop(s)
  /\ IsCached(geoCache, CurrentZip(s))
  /\ c' = [c EXCEPT ![s] = CachedValue(geoCache, CurrentZip(s))]
  /\ hit' = [hit EXCEPT ![s] = TRUE]
  /\ pc' = [pc EXCEPT ![s] = "sleep"]
  /\ sleepLeft' = [sleepLeft EXCEPT ![s] = SleepTicks]
  /\ UNCHANGED << zip_codes, idx, coords_list, errors, warnings, zoom_choice,
                  chosen_state, m, markers, highlights, loadResult, geoCache,
                  boundaryCache, queries, lastAnswer, sinceCall, sinceAny,
                  gap, globalGap >>

\* c = geocode_zip(z) on a cache miss: geolocator.geocode(...) is sent.
GeocodeCacheMiss(s) ==
  /\ InLoop(s)
  /\ ~IsCached(geoCache, CurrentZip(s))
  /\ ~Computing(CurrentZip(s))
  /\ queries[CurrentZip(s)] < MaxQueries
  /\ queries' = [queries EXCEPT ![CurrentZip(s)] = @ + 1]
  /\ hit' = [hit EXCEPT ![s] = FALSE]
  /\ pc' = [pc EXCEPT ![s] = "geocode"]
  /\ gap' = [gap EXCEPT ![s] = sinceCall[s]]
  /\ globalGap' = sinceAny
  /\ sinceCall' = [sinceCall EXCEPT ![s] = 0]
  /\ sinceAny' = 0
  /\ UNCHANGED << zip_codes, idx, c, coords_list, errors, warnings,
                  zoom_choice, chosen_state, m, markers, highlights,
                  loadResult, sleepLeft, geoCache, boundaryCache, lastAnswer >>

\* The body of geocode_zip after the query: a location gives (lat, lon); no
\* candidate, or any exception (bare except: pass), gives None.  The value is
\* returned through st.cache_data, which stores it; then time.sleep(1) starts.
GeocodeReturn(s, answer) ==
  LET z == CurrentZip(s)
      v == IF answer = "answered" THEN ProviderTable[z] ELSE None
  IN /\ pc[s] = "geocode"
     /\ lastAnswer' = [lastAnswer EXCEPT ![z] =
                         IF answer = "raised" THEN "raised"
                         ELSE IF Truthy(ProviderTable[z]) THEN "location"
                         ELSE "no candidate"]
     /\ geoCache' = StoreResult(geoCache, z, v)
     /\ c' = [c EXCEPT ![s] = v]
     /\ pc' = [pc EXCEPT ![s] = "sleep"]
     /\ sleepLeft' = [sleepLeft EXCEPT ![s] = SleepTicks]
     /\ UNCHANGED << zip_codes, idx, hit, coords_list, errors, warnings,
                     zoom_choice, chosen_state, m, markers, highlights,
                     loadResult, boundaryCache, queries, sinceCall, sinceAny,
                     gap, globalGap >>

ProviderAnswers(s) == GeocodeReturn(s, "answered")
ProviderRaises(s) == GeocodeReturn(s, "raised")

\* if c: coords_list.append((c[0], c[1], z))
NextCoords(cl, v, z) ==
  IF Truthy(v) THEN Append(cl, <<v[1], v[2], z>>) ELSE cl
\* A failed code that is passed over in silence.
NextErrorsSilent(er, v, z) == er
\* else: st.error(f"Could not geocode ZIP: {z}")
NextErrors(er, v, z) ==
  IF Truthy(v) THEN er ELSE Append(er, z)

\* time.sleep(1) returns; the rest of the loop body runs.
Wake(s) ==
  /\ pc[s] = "sleep"
  /\ sleepLeft[s] = 0
  /\ coords_list' = [coords_list EXCEPT ![s] = NextCoords(@, c[s], CurrentZip(s))]
  /\ errors' = [errors EXCEPT ![s] = NextErrors(@, c[s], CurrentZip(s))]
  /\ idx' = [idx EXCEPT ![s] = @ + 1]
  /\ pc' = [pc EXCEPT ![s] = "loop"]
  /\ UNCHANGED << zip_codes, c, hit, warnings, zoom_choice, chosen_state, m,
                  markers, highlights, loadResult, sleepLeft, geoCache,
                  boundaryCache, queries, lastAnswer, sinceCall, sinceAny,
                  gap, globalGap >>

\* One tick of wall-clock time: running sleeps get shorter, ages grow
\* (ages are kept up to MinInterval: older is old enough).
Older(age) == IF age = NoCall \/ age >= MinInterval THEN age ELSE age + 1
Tick ==
  /\ sleepLeft' = [s \in Sessions |->
                     IF pc[s] = "sleep" /\ sleepLeft[s] > 0
                     THEN sleepLeft[s] - 1 ELSE sleepLeft[s]]
  /\ sinceCall' = [s \in Sessions |-> Older(sinceCall[s])]
  /\ sinceAny' = Older(sinceAny)
  /\ UNCHANGED << pc, zip_codes, idx, c, hit, coords_list, errors, warnings,
                  zoom_choice, chosen_state, m, markers, highlights,
                  loadResult, geoCache, boundaryCache, queries, lastAnswer,
                  gap, globalGap >>

\* ------------------------------------------------------------ the map view
MinOf(S) == CHOOSE x \in S : \A y \in S : x <= y
MaxOf(S) == CHOOSE x \in S : \A y \in S : x >= y
Lats(cl) == {cl[i][1] : i \in 1..Len(cl)}
Lons(cl) == {cl[i][2] : i \in 1..Len(cl)}

\* A view centred on the first point instead of the bounding box.
AutoViewFirstPoint(cl) == << cl[1][1], cl[1][2], AutoZoom >>
\* center_lat = (min_lat + max_lat) / 2.0, center_lon likewise, zoom_start=6
AutoView(cl) ==
  << (MinOf(Lats(cl)) + MaxOf(Lats(cl))) \div 2,
     (MinOf(Lons(cl)) + MaxOf(Lons(cl))) \div 2,
     AutoZoom >>

\* The state's view only when some coordinate was resolved.
ViewForNeedsCoords(zc, cs, cl) ==
  IF zc = "State" /\ cs \in DOMAIN state_centers /\ cl # <<>>
  THEN state_centers[cs]
  ELSE IF zc = "Auto Region" /\ cl # <<>>
  THEN AutoView(cl)
  ELSE <<lat_default, lon_default, zoom_default>>
\* DETERMINE MAP VIEW: the if / elif / else that builds folium.Map
ViewFor(zc, cs, cl) ==
  IF zc = "State" /\ cs \in DOMAIN state_centers
  THEN state_centers[cs]
  ELSE IF zc = "Auto Region" /\ cl # <<>>
  THEN AutoView(cl)
  ELSE <<lat_default, lon_default, zoom_default>>

\* The for loop is over: the map is created.
DetermineMapView(s) ==
  /\ pc[s] = "loop"
  /\ idx[s] > Len(zip_codes[s])
  /\ m' = [m EXCEPT ![s] = ViewFor(zoom_choice[s], chosen_state[s], coords_list[s])]
  /\ pc' = [pc EXCEPT ![s] = "boundaries"]
  /\ UNCHANGED << zip_codes, idx, c, hit, coords_list, errors, warnings,
                  zoom_choice, chosen_state, markers, highlights, loadResult,
                  sleepLeft, geoCache, boundaryCache, queries, lastAnswer,
                  sinceCall, sinceAny, gap, globalGap >>

\* ------------------------------------------------------------- boundaries
\* state_gdf.geometry.contains(Point(lon, lat)): the interior, not the edge
Contains(poly, lat, lon) ==
  /\ poly.minLat < lat /\ lat < poly.maxLat
  /\ poly.minLon < lon /\ lon < poly.maxLon

\* matches = state_gdf[state_gdf.geometry.contains(point)]
Matches(gdf, lat, lon) ==
  LET inside(poly) == Contains(poly, lat, lon)
      found == SelectSeq(gdf, inside)
  IN [i \in 1..Len(found) |-> found[i].name]

\* folium.Marker([lat, lon], popup=f"ZIP: {z}") for each of coords_list
Pins(cl) ==
  [i \in 1..Len(cl) |-> [location |-> <<cl[i][1], cl[i][2]>>, popup |-> cl[i][3]]]

\* The pins placed next to the highlighted polygons (state_gdf is not None).
BoundaryMarkers(cl) == Pins(cl)
\* No pins without boundary data.
FallbackMarkersNone(cl) == <<>>
\* The pins of "Showing pins only." (state_gdf is None).
FallbackMarkers(cl) == Pins(cl)
\* The pins of the final else branch (no state chosen).
PlainMarkers(cl) == Pins(cl)

\* One folium.GeoJson layer per point that some polygon contains.
HighlightLayers(gdf, cl) ==
  LET matched(e) == Matches(gdf, e[1], e[2]) # <<>>
      sel == SelectSeq(cl, matched)
  IN [i \in 1..Len(sel) |->
        [zip |-> sel[i][3], polygons |-> Matches(gdf, sel[i][1], sel[i][2])]]

\* st.warning of load_state_boundaries (replayed by st.cache_data on a hit)
LoadWarnings(st, gdf) ==
  IF st \in state_data_urls /\ gdf = None
  THEN <<"Failed to load boundaries">> ELSE <<>>

\* HIGHLIGHT BOUNDARIES with state_gdf = the value load_state_boundaries gave
Highlight(s, gdf) ==
  /\ loadResult' = [loadResult EXCEPT ![s] =
                      IF gdf # None THEN "GeoDataFrame" ELSE "None"]
  /\ highlights' = [highlights EXCEPT ![s] =
                      IF gdf # None THEN HighlightLayers(gdf, coords_list[s])
                      ELSE <<>>]
  /\ markers' = [markers EXCEPT ![s] =
                   IF gdf # None THEN BoundaryMarkers(coords_list[s])
                   ELSE FallbackMarkers(coords_list[s])]
  /\ warnings' = [warnings EXCEPT ![s] =
                    LoadWarnings(chosen_state[s], gdf) \o
                    (IF gdf # None THEN <<>>
                     ELSE <<"No boundary data available">>)]
  /\ pc' = [pc EXCEPT ![s] = "rendered"]
  /\ UNCHANGED << zip_codes, idx, c, hit, coords_list, errors, zoom_choice,
                  chosen_state, m, sleepLeft, geoCache, queries, lastAnswer,
                  sinceCall, sinceAny, gap, globalGap >>

\* if zoom_choice == "State" and chosen_state:
WantsBoundaries(s) ==
  /\ pc[s] = "boundaries"
  /\ zoom_choice[s] = "State"
  /\ chosen_state[s] # NoState

\* load_state_boundaries served by st.cache_data
BoundariesCached(s) ==
  /\ WantsBoundaries(s)
  /\ IsCached(boundaryCache, chosen_state[s])
  /\ Highlight(s, CachedValue(boundaryCache, chosen_state[s]))
  /\ UNCHANGED boundaryCache

\* url = state_data_urls.get(state_abbrev); if not url: return None
BoundariesNotConfigured(s) ==
  /\ WantsBoundaries(s)
  /\ ~IsCached(boundaryCache, chosen_state[s])
  /\ chosen_state[s] \notin state_data_urls
  /\ boundaryCache' = StoreResult(boundaryCache, chosen_state[s], None)
  /\ Highlight(s, None)

\* gdf = gpd.read_file(url); return gdf
BoundariesFetched(s) ==
  /\ WantsBoundaries(s)
  /\ ~IsCached(boundaryCache, chosen_state[s])
  /\ chosen_state[s] \in state_data_urls
  /\ boundaryCache' = StoreResult(boundaryCache, chosen_state[s], TownBoundaries)
  /\ Highlight(s, TownBoundaries)

\* except Exception as e: st.warning(...); return None
BoundariesFetchFails(s) ==
  /\ WantsBoundaries(s)
  /\ ~IsCached(boundaryCache, chosen_state[s])
  /\ chosen_state[s] \in state_data_urls
  /\ boundaryCache' = StoreResult(boundaryCache, chosen_state[s], None)
  /\ Highlight(s, None)

\* else: just place pins for each ZIP
PlacePins(s) ==
  /\ pc[s] = "boundaries"
  /\ ~(zoom_choice[s] = "State" /\ chosen_state[s] # NoState)
  /\ markers' = [markers EXCEPT ![s] = PlainMarkers(coords_list[s])]
  /\ pc' = [pc EXCEPT ![s] = "rendered"]
  /\ UNCHANGED << zip_codes, idx, c, hit, coords_list, errors, warnings,
                  zoom_choice, chosen_state, m, highlights, loadResult,
                  sleepLeft, geoCache, boundaryCache, queries, lastAnswer,
                  sinceCall, sinceAny, gap, globalGap >>

\* One user: everything the form offers.
Submit(s) == SubmitFrom(s, ParsedInputs, FormChoices)
\* Concurrent users: the zoom select box left at its first option.
SubmitShared(s) == SubmitFrom(s, SharedInputs, {<<"National", NoState>>})

\* One session of the process is in use.
Next ==
  \/ \E s \in {"s1"} : Submit(s)
  \/ \E s \in {"s1"} : GeocodeCacheHit(s)
  \/ \E s \in {"s1"} : GeocodeCacheMiss(s)
  \/ \E s \in {"s1"} : ProviderAnswers(s)
  \/ \E s \in {"s1"} : ProviderRaises(s)
  \/ \E s \in {"s1"} : Wake(s)
  \/ \E s \in {"s1"} : DetermineMapView(s)
  \/ \E s \in {"s1"} : BoundariesCached(s)
  \/ \E s \in {"s1"} : BoundariesNotConfigured(s)
  \/ \E s \in {"s1"} : BoundariesFetched(s)
  \/ \E s \in {"s1"} : BoundariesFetchFails(s)
  \/ \E s \in {"s1"} : PlacePins(s)
  \/ Tick

Spec == Init /\ [][Next]_vars

\* Two sessions, each a script thread of its own, share the process.
NextShared ==
  \/ \E s \in Sessions : SubmitShared(s)
  \/ \E s \in Sessions : GeocodeCacheHit(s)
  \/ \E s \in Sessions : GeocodeCacheMiss(s)
  \/ \E s \in Sessions : ProviderAnswers(s)
  \/ \E s \in Sessions : ProviderRaises(s)
  \/ \E s \in Sessions : Wake(s)
  \/ \E s \in Sessions : DetermineMapView(s)
  \/ \E s \in Sessions : PlacePins(s)
  \/ Tick

SpecShared == Init /\ [][NextShared]_vars

\* ------------------------------------------------------------------ claims
National == <<lat_default, lon_default, zoom_default>>
Finished(s) == pc[s] = "rendered"
\* What resolving z gave: the value geocode_zip returned and cached.
Resolved(z) == CachedValue(geoCache, z)
Succeeded(z) == Truthy(Resolved(z))
Failed(z) == ~Truthy(Resolved(z))
\* The coordinates of the codes of s's batch that resolved, in input order.
GoodCodes(s) == SelectSeq(zip_codes[s], Succeeded)
GoodCoords(s) ==
  [i \in 1..Len(GoodCodes(s)) |->
     <<Resolved(GoodCodes(s)[i])[1], Resolved(GoodCodes(s)[i])[2], GoodCodes(s)[i]>>]

\* C1: a code served from the geocode cache gets the value the first resolve
\* stored, and no rate-limit wait (the 1-second sleep) is incurred for it.
C1_CacheHitSkipsWait ==
  \A s \in Sessions :
    (hit[s] /\ pc[s] = "sleep") =>
      /\ c[s] = Resolved(CurrentZip(s))
      /\ sleepLeft[s] = 0

\* C2: a lookup that ended in a provider exception is not stored in the
\* geocode cache, so the next resolve of the code queries the provider again.
C2_FailureNotCached ==
  \A z \in Codes : lastAnswer[z] = "raised" => ~IsCached(geoCache, z)

\* C3: once the provider has answered "no candidate" for a code, no later
\* step of any session issues another provider query for that code.
C3_NotFoundNeverRequeried ==
  [][\A z \in Codes :
       lastAnswer[z] = "no candidate" => queries'[z] = queries[z]]_vars

\* C3 witness: one session got "no candidate" for a code from the provider,
\* and another session then resolved the same code from the cache.
C3_Witness ==
  \E s \in Sessions : \E t \in Sessions \ {s} :
    /\ lastAnswer["INVALID_XYZ"] = "no candidate"
    /\ Finished(t) /\ zip_codes[t] = <<"INVALID_XYZ">> /\ ~hit[t]
    /\ pc[s] = "sleep" /\ CurrentZip(s) = "INVALID_XYZ" /\ hit[s]
    /\ c[s] = None /\ queries["INVALID_XYZ"] = 1

\* C4: within one run of the handler, a provider query is issued at least
\* MinInterval after the run's previous provider query.
C4_SpacingWithinRun ==
  \A s \in Sessions : gap[s] # NoCall => gap[s] >= MinInterval

\* C4 witness: the second code of a batch goes to the provider after the
\* first one did, in a process where the other session has a batch done.
C4_Witness ==
  \E s \in Sessions : \E t \in Sessions \ {s} :
    /\ Finished(t)
    /\ pc[s] = "geocode" /\ idx[s] = 2 /\ gap[s] >= MinInterval
    /\ zip_codes[s][1] # zip_codes[s][2]
    /\ queries[zip_codes[s][1]] = 1

\* C5: no two provider queries of the process, whichever sessions issue
\* them, are less than MinInterval apart.
C5_GlobalSpacing ==
  globalGap # NoCall => globalGap >= MinInterval

\* C6: when a batch is done, every input code was processed and gave exactly
\* one outcome in input order (a coordinate or an error report), and the
\* coordinates behind the markers, the highlighted polygons and the view are
\* exactly those of the codes that resolved.
C6_PartialFailureIsolated ==
  \A s \in Sessions :
    Finished(s) =>
      /\ idx[s] = Len(zip_codes[s]) + 1
      /\ coords_list[s] = GoodCoords(s)
      /\ errors[s] = SelectSeq(zip_codes[s], Failed)
      /\ Len(markers[s]) = Len(GoodCoords(s))
      /\ \A i \in 1..Len(markers[s]) :
           /\ markers[s][i].popup = GoodCoords(s)[i][3]
           /\ markers[s][i].location = <<GoodCoords(s)[i][1], GoodCoords(s)[i][2]>>
      /\ \A i \in 1..Len(highlights[s]) :
           \E j \in 1..Len(GoodCodes(s)) : highlights[s][i].zip = GoodCodes(s)[j]
      /\ ((zoom_choice[s] = "Auto Region" /\ GoodCoords(s) = <<>>)
            => m[s] = National)

\* C6 witness: the batch "06106, INVALID_XYZ" is done with one coordinate
\* and one error report.
C6_Witness ==
  \E s \in Sessions :
    /\ Finished(s)
    /\ zip_codes[s] = <<"06106", "INVALID_XYZ">>
    /\ Len(coords_list[s]) = 1 /\ errors[s] = <<"INVALID_XYZ">>
    /\ Len(markers[s]) = 1

\* C7 as stated: under "State" the view is the chosen state's table entry
\* only when the state is known and a coordinate was resolved; otherwise it
\* is the National view.
C7_StateViewNeedsCoords ==
  \A s \in Sessions :
    (Finished(s) /\ zoom_choice[s] = "State") =>
      m[s] = IF chosen_state[s] \in DOMAIN state_centers /\ coords_list[s] # <<>>
             THEN state_centers[chosen_state[s]]
             ELSE National

\* C7 amended: under "State" the view is the chosen state's table entry for
\* every state the form offers, whether or not any coordinate was resolved.
C7_StateViewFromTable ==
  \A s \in Sessions :
    (Finished(s) /\ zoom_choice[s] = "State") =>
      /\ chosen_state[s] \in DOMAIN state_centers
      /\ m[s] = state_centers[chosen_state[s]]

\* C7 witness: a "State" batch with no resolved coordinate shows the state's
\* own view.
C7_Witness ==
  \E s \in Sessions :
    /\ Finished(s) /\ zoom_choice[s] = "State" /\ chosen_state[s] = "NY"
    /\ zip_codes[s] # <<>> /\ coords_list[s] = <<>>
    /\ m[s] = <<430000, -750000, 7>>

\* C8: under "Auto Region" the view of a batch with resolved coordinates is
\* centred on the midpoint of their bounding box at the fixed zoom 6; with no
\* resolved coordinate it is the National view.
C8_AutoRegionView ==
  \A s \in Sessions :
    (Finished(s) /\ zoom_choice[s] = "Auto Region") =>
      LET pts == {Resolved(zip_codes[s][i]) : i \in 1..Len(zip_codes[s])} \ {None}
      IN IF pts = {} THEN m[s] = National
         ELSE \E lo \in pts, hi \in pts, west \in pts, east \in pts :
                /\ \A p \in pts : lo[1] <= p[1] /\ p[1] <= hi[1]
                /\ \A p \in pts : west[2] <= p[2] /\ p[2] <= east[2]
                /\ 2 * m[s][1] = lo[1] + hi[1]
                /\ 2 * m[s][2] = west[2] + east[2]
                /\ m[s][3] = AutoZoom

\* C8 witness: two different points resolved, listed north-east one last.
C8_Witness ==
  \E s \in Sessions :
    /\ Finished(s) /\ zoom_choice[s] = "Auto Region"
    /\ zip_codes[s] = <<"10001", "06106">> /\ Len(coords_list[s]) = 2
    /\ m[s] = <<412450, -733450, 6>>

\* C9: load_state_boundaries returns (it does not raise), with None for a
\* state that has no endpoint or whose fetch failed; the batch then still
\* ends with the view, one marker per resolved code and no polygon.
C9_RegionUnavailable ==
  \A s \in Sessions :
    (Finished(s) /\ zoom_choice[s] = "State") =>
      /\ loadResult[s] \in {"GeoDataFrame", "None"}
      /\ (chosen_state[s] \notin state_data_urls => loadResult[s] = "None")
      /\ ((\E i \in 1..Len(warnings[s]) :
              warnings[s][i] = "Failed to load boundaries")
            => loadResult[s] = "None")
      /\ (loadResult[s] = "None" =>
            /\ m[s] = state_centers[chosen_state[s]]
            /\ markers[s] = Pins(GoodCoords(s))
            /\ highlights[s] = <<>>)

\* C9 witness: a batch with a resolved code ends under a state without
\* boundary data.
C9_Witness ==
  \E s \in Sessions :
    /\ Finished(s) /\ zoom_choice[s] = "State" /\ chosen_state[s] = "MA"
    /\ loadResult[s] = "None" /\ Len(markers[s]) = 2 /\ highlights[s] = <<>>

\* C10: a submission whose parsed list is empty is reported as an error at
\* once, and neither the geocoder, nor the wait, nor the boundary load runs.
C10_EmptyListRejected ==
  \A s \in Sessions :
    (zip_codes[s] = <<>> /\ pc[s] \in {"boundaries", "rendered"}) =>
      /\ errors[s] # <<>>
      /\ loadResult[s] = "not called"
      /\ sinceCall[s] = NoCall
====
